---- MODULE Spec2Model ----
(***************************************************************************)
(* A model of the kokos documentor PDF viewer (src/unnamed/part_000, the   *)
(* full viewer, and src/src/App.tsx, its simpler variant).                 *)
(*                                                                         *)
(*   SpecPage  one PdfPage component: its render / text-render effects and *)
(*             the asynchronous operations they start.                     *)
(*   SpecMark  the selection marking done at the end of renderText.        *)
(***************************************************************************)
EXTENDS Integers, Sequences, FiniteSets, TLC

\* ------------------------------------------------------------------ bounds
\* operations (renderPage / renderText invocations) one page may start
MaxOps == 4
\* ctrl+wheel ticks
MaxZoom == 2
\* glyph nodes of a page's text content
MaxGlyphs == 3
\* pages a selection endpoint may name: 0 .. MaxSelPage
MaxSelPage == 2
\* pages of the default document
MaxPages == 5
\* documents loaded in one run (the initial load and the switches)
MaxLoads == 2
\* the largest page index an initial fragment names
MaxInitPage == 3
\* the largest anchorOffset / focusOffset of a native selection
MaxOffset == 2
\* height of a page canvas, in layout units
CanvasH == 2
\* ctrl+wheel ticks handled by the App in one run
MaxWheel == 1
\* how far the page counter of src/src/App.tsx is followed outside 0 .. MaxPages
MaxDrift == 2

\* ------------------------------------------------------- program constants
\* useState(props.pageIndex < 4)
InitVisibleLimit == 4
\* end = 99999
EndSentinel == 99999
\* useState(1.2), in thousandths
InitialScale == 1200
\* className="relative border bg-white": the border width of a page container
Border == 1
\* src/src/App.tsx: let wasVisible = props.pageNumber < 4
InitVisibleLimitSimple == 4
\* src/src/App.tsx: useState(1), in thousandths
InitialScaleSimple == 1000

VARIABLES
    \* App state handed down as props
    scale, selection, zooms,
    \* one PdfPage instance
    pagePropIndex, glyphCount, mounted, visible, tasks, ops, canvas, textLayer,
    fetches, lastWrite,
    \* AppContainer, the window and the page list
    hash, documentName, pageIndex, document, loads, live, layout, scrollY,
    scrollPending, wasVisible, events, navPending, story,
    \* the props App() hands to AppContainer, window.getSelection() at the last
    \* mouseup, and per page the first and the last transition it signalled
    props, native, signalled,
    \* PdfTree and its PdfChildTree instances
    outline

pageVars == <<pagePropIndex, glyphCount, mounted, visible, tasks, ops, canvas,
              textLayer, fetches, lastWrite>>
appVars == <<hash, documentName, pageIndex, document, loads, live, layout, scrollY,
             scrollPending, wasVisible, events, navPending, story, props, native,
             signalled, outline>>
vars == <<scale, selection, zooms, pageVars, appVars>>

\* selection === undefined
NoSel == <<>>

\* ------------------------------------------------------------ scale (wheel)
\* setScale((scale) => scale * 1.05), in thousandths, rounded down
ScaleUp(s) == (s * 105) \div 100
\* setScale((scale) => scale * 0.95)
ScaleDown(s) == (s * 95) \div 100

\* ------------------------------------------------- URL fragment: the codec
\* Text is a sequence of character codes.  A JavaScript value is a record
\* [t |-> tag, v |-> payload]: numbers (integers here), strings, arrays, null
\* and undefined.
JNum(n) == [t |-> "num", v |-> n]
JStr(s) == [t |-> "str", v |-> s]
JArr(a) == [t |-> "arr", v |-> a]
JNull == [t |-> "null", v |-> 0]
JUndefined == [t |-> "undefined", v |-> 0]

RECURSIVE Digits(_)
Digits(n) == IF n < 10 THEN <<48 + n>> ELSE Digits(n \div 10) \o <<48 + (n % 10)>>

RECURSIVE Quote(_)
\* the characters of a string literal: " and \ get a backslash
Quote(s) ==
    IF s = <<>> THEN <<>>
    ELSE (IF Head(s) \in {34, 92} THEN <<92, Head(s)>> ELSE <<Head(s)>>) \o Quote(Tail(s))

RECURSIVE JSONStringify(_)
RECURSIVE JoinValues(_)
JoinValues(a) ==
    IF a = <<>> THEN <<>>
    ELSE IF Len(a) = 1 THEN JSONStringify(a[1])
    ELSE JSONStringify(a[1]) \o <<44>> \o JoinValues(Tail(a))

\* JSON.stringify
JSONStringify(x) ==
    CASE x.t = "num" -> IF x.v < 0 THEN <<45>> \o Digits(-x.v) ELSE Digits(x.v)
      [] x.t = "str" -> <<34>> \o Quote(x.v) \o <<34>>
      [] x.t = "arr" -> <<91>> \o JoinValues(x.v) \o <<93>>
      [] OTHER -> <<110, 117, 108, 108>>

\* the base64 alphabet: A-Z a-z 0-9 + /
B64Char(i) ==
    IF i < 26 THEN 65 + i
    ELSE IF i < 52 THEN 97 + (i - 26)
    ELSE IF i < 62 THEN 48 + (i - 52)
    ELSE IF i = 62 THEN 43 ELSE 47

B64Index(c) ==
    IF c >= 65 /\ c <= 90 THEN c - 65
    ELSE IF c >= 97 /\ c <= 122 THEN c - 97 + 26
    ELSE IF c >= 48 /\ c <= 57 THEN c - 48 + 52
    ELSE IF c = 43 THEN 62
    ELSE IF c = 47 THEN 63 ELSE -1

RECURSIVE btoa(_)
\* btoa: three bytes to four characters, = padding
btoa(b) ==
    IF b = <<>> THEN <<>>
    ELSE IF Len(b) = 1
    THEN <<B64Char(b[1] \div 4), B64Char((b[1] % 4) * 16), 61, 61>>
    ELSE IF Len(b) = 2
    THEN <<B64Char(b[1] \div 4), B64Char((b[1] % 4) * 16 + b[2] \div 16),
           B64Char((b[2] % 16) * 4), 61>>
    ELSE <<B64Char(b[1] \div 4), B64Char((b[1] % 4) * 16 + b[2] \div 16),
           B64Char((b[2] % 16) * 4 + b[3] \div 64), B64Char(b[3] % 64)>>
         \o btoa(SubSeq(b, 4, Len(b)))

RECURSIVE AtobBytes(_)
\* the bytes of unpadded base64 text whose length is not 1 modulo 4
AtobBytes(c) ==
    IF Len(c) < 2 THEN <<>>
    ELSE LET i1 == B64Index(c[1])
             i2 == B64Index(c[2])
         IN IF Len(c) = 2 THEN <<i1 * 4 + i2 \div 16>>
            ELSE LET i3 == B64Index(c[3]) IN
                 IF Len(c) = 3 THEN <<i1 * 4 + i2 \div 16, (i2 % 16) * 16 + i3 \div 4>>
                 ELSE <<i1 * 4 + i2 \div 16, (i2 % 16) * 16 + i3 \div 4,
                        (i3 % 4) * 64 + B64Index(c[4])>>
                      \o AtobBytes(SubSeq(c, 5, Len(c)))

\* atob (forgiving base64 decode): [ok |-> FALSE] is the thrown exception
atob(c) ==
    LET n == Len(c)
        pad == IF n % 4 = 0 /\ n > 0 /\ c[n] = 61
               THEN (IF c[n - 1] = 61 THEN 2 ELSE 1) ELSE 0
        body == SubSeq(c, 1, n - pad)
    IN IF Len(body) % 4 = 1 \/ \E i \in DOMAIN body : B64Index(body[i]) < 0
       THEN [ok |-> FALSE, v |-> <<>>]
       ELSE [ok |-> TRUE, v |-> AtobBytes(body)]

ParseFail == [ok |-> FALSE, v |-> JUndefined, i |-> 0]

IsDigit(c) == c >= 48 /\ c <= 57

RECURSIVE ParseDigits(_, _, _)
\* the digits of s from position i on, as a number; i is the position after
ParseDigits(s, i, acc) ==
    IF i <= Len(s) /\ IsDigit(s[i]) THEN ParseDigits(s, i + 1, acc * 10 + (s[i] - 48))
    ELSE [ok |-> TRUE, v |-> JNum(acc), i |-> i]

\* a JSON integer: -? (0 | [1-9][0-9]*)
ParseNumber(s, i) ==
    LET neg == s[i] = 45
        j == IF neg THEN i + 1 ELSE i
    IN IF j > Len(s) \/ ~IsDigit(s[j]) THEN ParseFail
       ELSE IF s[j] = 48
       THEN IF j + 1 <= Len(s) /\ IsDigit(s[j + 1]) THEN ParseFail
            ELSE [ok |-> TRUE, v |-> JNum(0), i |-> j + 1]
       ELSE LET r == ParseDigits(s, j, 0) IN
            IF neg THEN [r EXCEPT !.v = JNum(-r.v.v)] ELSE r

RECURSIVE ParseString(_, _, _)
\* the rest of a string literal, i being the position after the opening quote
ParseString(s, i, acc) ==
    IF i > Len(s) THEN ParseFail
    ELSE IF s[i] = 34 THEN [ok |-> TRUE, v |-> JStr(acc), i |-> i + 1]
    ELSE IF s[i] = 92
    THEN IF i + 1 <= Len(s) /\ s[i + 1] \in {34, 92}
         THEN ParseString(s, i + 2, Append(acc, s[i + 1]))
         ELSE ParseFail
    ELSE IF s[i] < 32 THEN ParseFail
    ELSE ParseString(s, i + 1, Append(acc, s[i]))

RECURSIVE ParseValue(_, _)
RECURSIVE ParseElements(_, _, _)
\* the elements of an array, i being the position of the next element
ParseElements(s, i, acc) ==
    LET r == ParseValue(s, i) IN
    IF ~r.ok \/ r.i > Len(s) THEN ParseFail
    ELSE IF s[r.i] = 44 THEN ParseElements(s, r.i + 1, Append(acc, r.v))
    ELSE IF s[r.i] = 93 THEN [ok |-> TRUE, v |-> JArr(Append(acc, r.v)), i |-> r.i + 1]
    ELSE ParseFail

ParseValue(s, i) ==
    IF i > Len(s) THEN ParseFail
    ELSE IF s[i] = 91
    THEN IF i + 1 <= Len(s) /\ s[i + 1] = 93
         THEN [ok |-> TRUE, v |-> JArr(<<>>), i |-> i + 2]
         ELSE ParseElements(s, i + 1, <<>>)
    ELSE IF s[i] = 34 THEN ParseString(s, i + 1, <<>>)
    ELSE IF s[i] = 45 \/ IsDigit(s[i]) THEN ParseNumber(s, i)
    ELSE IF i + 3 <= Len(s) /\ SubSeq(s, i, i + 3) = <<110, 117, 108, 108>>
    THEN [ok |-> TRUE, v |-> JNull, i |-> i + 4]
    ELSE ParseFail

\* JSON.parse of text without white space: [ok |-> FALSE] is the SyntaxError
JSONParse(s) ==
    LET r == ParseValue(s, 1) IN
    IF r.ok /\ r.i = Len(s) + 1 THEN [ok |-> TRUE, v |-> r.v] ELSE [ok |-> FALSE, v |-> JUndefined]

\* "amd64volume2.pdf"
DefaultDocument == <<97, 109, 100, 54, 52, 118, 111, 108, 117, 109, 101, 50, 46, 112, 100, 102>>
\* "b.pdf", a second entry of /documents/index.json
OtherDocument == <<98, 46, 112, 100, 102>>

\* a MarkedSelection as a JavaScript array, and back
SelectionValue(sel) == JArr([i \in 1..Len(sel) |-> JNum(sel[i])])

\* The element of a destructuring pattern at position k (1-based)
Element(x, k) ==
    IF x.t = "arr" THEN (IF k <= Len(x.v) THEN x.v[k] ELSE JUndefined)
    ELSE IF k <= Len(x.v) THEN JStr(<<x.v[k]>>) ELSE JUndefined

\* App(): the defaults, overwritten by the destructured fragment unless
\* atob, JSON.parse or the destructuring throws
AppDefaults ==
    [documentName |-> JStr(DefaultDocument), pageIndex |-> JNum(0), selection |-> JNull]

App(h) ==
    IF h = <<>> THEN AppDefaults
    ELSE LET a == atob(h) IN
         IF ~a.ok THEN AppDefaults
         ELSE LET j == JSONParse(a.v) IN
              IF ~j.ok \/ j.v.t \notin {"arr", "str"} THEN AppDefaults
              ELSE [documentName |-> Element(j.v, 2), pageIndex |-> Element(j.v, 3),
                    selection |-> Element(j.v, 4)]

\* the fragment the persist effect writes:
\* btoa(JSON.stringify(selection ? [0, documentName, pageIndex, selection]
\*                               : [0, documentName, pageIndex]))
ViewValue(name, idx, sel) ==
    JArr(IF sel # NoSel
         THEN <<JNum(0), JStr(name), JNum(idx), SelectionValue(sel)>>
         ELSE <<JNum(0), JStr(name), JNum(idx)>>)

HashOf(name, idx, sel) == btoa(JSONStringify(ViewValue(name, idx, sel)))

\* btoa throws InvalidCharacterError on a character outside Latin-1
BtoaThrows(b) == \E i \in DOMAIN b : b[i] > 255

\* props.initialPageIndex || 0
OrZero(x) ==
    IF x.t \in {"undefined", "null"} \/ x = JNum(0) \/ x = JStr(<<>>) THEN JNum(0) ELSE x

\* the state AppContainer starts with, from its props (useState initial values)
InitialState(p) ==
    [documentName |-> p.documentName, pageIndex |-> OrZero(p.pageIndex),
     selection |-> p.selection]

\* ---------------------------------------------------------- documents, layout
DocNames == {DefaultDocument, OtherDocument}

\* document.numPages
NumPages(name) == IF name = DefaultDocument THEN MaxPages ELSE MaxPages - 3

\* The page containers are stacked; each is a div of class "border" (a border
\* of one pixel) around its canvas.
\* layout = [viewH |-> viewport height, border |-> border width].
Layouts == {[viewH |-> 2, border |-> Border], [viewH |-> CanvasH + 1, border |-> Border]}

Pitch(lay) == CanvasH + 2 * lay.border

\* canvas.getBoundingClientRect() of page i at scroll offset y
RectTop(lay, i, y) == i * Pitch(lay) + lay.border - y
RectBottom(lay, i, y) == RectTop(lay, i, y) + CanvasH

Min(a, b) == IF a < b THEN a ELSE b
Max(a, b) == IF a > b THEN a ELSE b

MaxScrollY(lay, n) == Max(0, n * Pitch(lay) - lay.viewH)

\* children[k].scrollIntoView({}): the container's top edge at the viewport top
ScrollTarget(lay, n, k) == Min(k * Pitch(lay), MaxScrollY(lay, n))

\* ------------------------------------------------------ visibility tracking
\* What a page callback may touch: the state of AppContainer.
AppState ==
    [pageIndex |-> pageIndex, scale |-> scale, selection |-> selection,
     document |-> document]

\* a variant that treats an entry from below like an entry from above
onEnterBottomTracks(app, i) == [app EXCEPT !.pageIndex = i]

\* onExitTop={() => { setPageIndex(i + 1); }}
onExitTop(app, i) == [app EXCEPT !.pageIndex = i + 1]
\* onExitBottom={() => {}}
onExitBottom(app, i) == app
\* onEnterTop={() => { setPageIndex(i); }}
onEnterTop(app, i) == [app EXCEPT !.pageIndex = i]
\* onEnterBottom={() => {}}
onEnterBottom(app, i) == app

\* a variant with the lower edge test off by one
NotVisibleStrict(top, bottom, screenHeight) == bottom < 0 \/ top > screenHeight

\* if (rect.bottom < 0 || rect.top >= screenHeight)
NotVisible(top, bottom, screenHeight) == bottom < 0 \/ top >= screenHeight

\* if (rect.bottom < 0) onExitTop else onExitBottom
ExitSignal(top, bottom) == IF bottom < 0 THEN "exitTop" ELSE "exitBottom"

\* if (rect.top < 0) onEnterTop else onEnterBottom
EnterSignal(top, bottom) == IF top < 0 THEN "enterTop" ELSE "enterBottom"

Call(signal, app, i) ==
    CASE signal = "exitTop" -> onExitTop(app, i)
      [] signal = "exitBottom" -> onExitBottom(app, i)
      [] signal = "enterTop" -> onEnterTop(app, i)
      [] signal = "enterBottom" -> onEnterBottom(app, i)
      [] OTHER -> app

\* onGlobalScroll of page i, its decision: the callback it invokes, if any
PageSignal(was, top, bottom, screenHeight) ==
    IF NotVisible(top, bottom, screenHeight)
    THEN (IF was THEN ExitSignal(top, bottom) ELSE "none")
    ELSE (IF ~was THEN EnterSignal(top, bottom) ELSE "none")

\* a variant that forgets `wasVisible = false` after an exit
WasAfterKeepsExit(was, signal) ==
    IF signal \in {"enterTop", "enterBottom"} THEN TRUE ELSE was

\* onGlobalScroll of page i, its assignment to wasVisible
WasAfter(was, signal) ==
    IF signal \in {"exitTop", "exitBottom"} THEN FALSE
    ELSE IF signal \in {"enterTop", "enterBottom"} THEN TRUE
    ELSE was

\* The signal of every page from index `from` on, at scroll offset y.
\* was[i + 1] is wasVisible of page i.
Signals(was, from, lay, y) ==
    [i \in 1..Len(was) |->
        IF i - 1 < from THEN "none"
        ELSE PageSignal(was[i], RectTop(lay, i - 1, y), RectBottom(lay, i - 1, y),
                        lay.viewH)]

RECURSIVE RunCallbacksBackward(_, _, _)
\* a variant in which the listeners run from the last page to the first
RunCallbacksBackward(app, ev, i) ==
    IF i >= Len(ev) THEN app
    ELSE Call(ev[i + 1], RunCallbacksBackward(app, ev, i + 1), i)

RECURSIVE RunCallbacks(_, _, _)
\* The scroll listeners run in page order (the order they were added), each
\* invoking its callback on the App state the previous ones left.
RunCallbacks(app, ev, i) ==
    IF i >= Len(ev) THEN app
    ELSE RunCallbacks(Call(ev[i + 1], app, i), ev, i + 1)

\* wasVisible of every page after the listeners ran
WasAfterAll(was, ev) == [i \in 1..Len(was) |-> WasAfter(was[i], ev[i])]

NoEvents == [cause |-> "none", was |-> <<>>, ev |-> <<>>]

\* history: whether a signal is an exit or an enter
Direction(signal) ==
    IF signal \in {"exitTop", "exitBottom"} THEN "exit"
    ELSE IF signal \in {"enterTop", "enterBottom"} THEN "enter"
    ELSE "none"

\* history: a page instance that has signalled nothing
NoSignal == [first |-> "none", last |-> "none"]

\* history: the first and last direction each page signalled, after the
\* signals ev; pages beyond Len(old) have just mounted
Signalled(old, ev) ==
    [i \in 1..Len(ev) |->
        LET prev == IF i <= Len(old) THEN old[i] ELSE NoSignal
            d == Direction(ev[i])
        IN IF d = "none" THEN prev
           ELSE [first |-> IF prev.first = "none" THEN d ELSE prev.first, last |-> d]]

\* an endpoint of a native selection that is outside every text layer
Outside == [inLayer |-> FALSE, page |-> 0, glyph |-> 0]

\* window.getSelection() without a selection, anchor node or focus node
NoNative ==
    [present |-> FALSE, anchorOffset |-> 0, focusOffset |-> 0, anchor |-> Outside,
     focus |-> Outside]

\* ------------------------------------------------------------------ outline
\* An outline item's dest: null, a name, or an explicit array naming page id.
\* The named destinations of a document with n pages: name k < n is page k,
\* name n is an empty destination, any other name is unknown.
OutlineDests(n) ==
    {[kind |-> "null", id |-> 0]}
        \cup {[kind |-> "name", id |-> k] : k \in {0, n - 1, n, n + 1}}
        \cup {[kind |-> "array", id |-> k] : k \in {n - 1}}

\* no click is being resolved
NoNav == [doc |-> 0, dest |-> [kind |-> "null", id |-> 0]]

\* String(item.dest): a name is itself; "null" and "[object Object],..." are
\* strings that name no destination (-1, -2)
DestString(dest) ==
    IF dest.kind = "name" THEN dest.id ELSE IF dest.kind = "null" THEN -1 ELSE -2

\* document.getDestination(name): null for an unknown name
getDestination(n, name) ==
    IF name \in 0..(n - 1) THEN [found |-> TRUE, refs |-> <<name>>]
    ELSE IF name = n THEN [found |-> TRUE, refs |-> <<>>]
    ELSE [found |-> FALSE, refs |-> <<>>]

\* if (!destination || destination.length <= 0) return
Unresolvable(destination) == ~destination.found \/ Len(destination.refs) <= 0

\* document.getOutline() of a document with n pages, flattened: item k with
\* its dest and the item it is listed under (0: the root list).
OutlineItems(n) ==
    <<[dest |-> [kind |-> "name", id |-> n - 1], parent |-> 0],
      [dest |-> [kind |-> "array", id |-> n - 1], parent |-> 0],
      [dest |-> [kind |-> "null", id |-> 0], parent |-> 0],
      [dest |-> [kind |-> "name", id |-> 0], parent |-> 1],
      [dest |-> [kind |-> "name", id |-> n], parent |-> 1]>>

\* pageNumber === undefined: the label is not rendered
Blank == 0

\* no PdfChildTree instance for an item
NoNode == [mounted |-> FALSE, shown |-> FALSE, stage |-> "none", pageNumber |-> Blank,
           attempts |-> 0]

\* a PdfChildTree instance at mount: useState(false), useState(), and the mount
\* effect has called getPageInfo, suspended at  await getDestination(...)
NewNode == [mounted |-> TRUE, shown |-> FALSE, stage |-> "getDestination",
            pageNumber |-> Blank, attempts |-> 1]

\* no PdfTree is rendered (document is undefined)
NoOutline == [mounted |-> FALSE, doc |-> 0, loaded |-> FALSE, items |-> <<>>, nodes |-> <<>>]

\* PdfTree at mount for document handle l: useState([]) and loadTree()
\* suspended at  await props.document.getOutline()
NewOutline(l) == [NoOutline EXCEPT !.mounted = TRUE, !.doc = l]

RECURSIVE Under(_, _, _)
\* item j is rendered, directly or not, inside the instance of item k
Under(items, j, k) ==
    /\ items[j].parent # 0
    /\ (items[j].parent = k \/ Under(items, items[j].parent, k))

\* ------------------------------------------------------------ persist effect
\* useEffect(() => { location.hash = ... }, [pageIndex, selection])
Persist(changed, name, idx, sel, old) ==
    IF ~changed THEN old
    ELSE LET text == JSONStringify(ViewValue(name, idx, sel))
         IN IF BtoaThrows(text) THEN old ELSE btoa(text)

\* the App variables while a single page is studied
AppIdle ==
    /\ hash = <<>>
    /\ documentName = DefaultDocument
    /\ pageIndex = 0
    /\ document = 0
    /\ loads = <<>>
    /\ live = {}
    /\ layout = [viewH |-> 2, border |-> Border]
    /\ scrollY = 0
    /\ scrollPending = FALSE
    /\ wasVisible = <<>>
    /\ events = NoEvents
    /\ navPending = NoNav
    /\ story = [kind |-> "other"]
    /\ props = AppDefaults
    /\ native = NoNative
    /\ signalled = <<>>
    /\ outline = NoOutline

\* ------------------------------------------------------ one page's operations
\* An operation is one invocation of renderPage or renderText.  stage:
\*   "getPage"   suspended at  await props.document.getPage(...)
\*   "getText"   suspended at  await page.getTextContent()
\*   "rendering" suspended at  await renderTask.promise / renderTextTask.promise
\*   "done"      ran to its end
\*   "canceled"  its task's promise was rejected by cancel(); the rest of the
\*               function never runs
\*   "failed"    threw on a null ref after unmount
\* scale and selection are the props captured by the invocation's closure.
\* cancelCalled: cancel() was invoked on the operation's task.
\* stale: the effect that started it was re-run or torn down before it completed.
Incomplete == {"getPage", "getText", "rendering"}

NewOp(kind, stage, sc, sel) ==
    [kind |-> kind, stage |-> stage, scale |-> sc, selection |-> sel,
     cancelCalled |-> FALSE, stale |-> FALSE]

\* The mutable cells of a page instance, as one record the helpers transform.
PageState ==
    [tasks |-> tasks, ops |-> ops, canvas |-> canvas, textLayer |-> textLayer,
     fetches |-> fetches, writes |-> {}]

Commit(st) ==
    /\ tasks' = st.tasks
    /\ ops' = st.ops
    /\ canvas' = st.canvas
    /\ textLayer' = st.textLayer
    /\ fetches' = st.fetches
    /\ lastWrite' = st.writes

Write(st, id, what) == [st EXCEPT !.writes = @ \cup {[op |-> id, what |-> what]}]

\* The operation's function has returned or thrown: its closure is gone.
Finish(st, id, stage) ==
    [st EXCEPT !.ops[id].stage = stage, !.ops[id].scale = 0, !.ops[id].selection = NoSel]

\* renderTask.cancel() / renderTextTask.cancel(): rejects the task's promise, so
\* the awaiting function throws and nothing after the await runs.
CancelTask(st, id) ==
    LET st1 == [st EXCEPT !.ops[id].cancelCalled = TRUE] IN
    IF st.ops[id].stage = "rendering" THEN Finish(st1, id, "canceled") ELSE st1

\* cleanup of the render effect: if (tasks.current.renderTask) renderTask.cancel()
CleanupRender(st) ==
    IF st.tasks.renderTask # 0 THEN CancelTask(st, st.tasks.renderTask) ELSE st

\* cleanup of the text effect
CleanupRenderText(st) ==
    IF st.tasks.renderTextTask # 0 THEN CancelTask(st, st.tasks.renderTextTask) ELSE st

\* history only: the effects of `kinds` are being re-run or torn down
MarkStale(st, kinds) ==
    [st EXCEPT !.ops = [i \in DOMAIN @ |->
        IF @[i].kind \in kinds /\ @[i].stage \in Incomplete
        THEN [@[i] EXCEPT !.stale = TRUE] ELSE @[i]]]

\* renderPage from `let page` to `tasks.current.renderTask = renderTask`:
\* resizes the canvas (which clears it), positions the text layer, starts the
\* raster render and stores its handle.
RenderPageBody(st, id) ==
    LET st1 == [st EXCEPT !.canvas = [scale |-> st.ops[id].scale, paintedBy |-> 0],
                          !.tasks.renderTask = id,
                          !.ops[id].stage = "rendering"]
    IN Write(st1, id, "resize")

\* renderPage up to its first suspension
renderPage(st, sc) ==
    LET id == Len(st.ops) + 1 IN
    IF ~st.tasks.page
    THEN [st EXCEPT !.ops = Append(@, NewOp("render", "getPage", sc, NoSel)),
                    !.fetches = @ + 1]
    ELSE RenderPageBody(
             [st EXCEPT !.ops = Append(@, NewOp("render", "getPage", sc, NoSel))], id)

\* renderText up to its first suspension
renderText(st, sc, sel) ==
    IF ~st.tasks.page
    THEN [st EXCEPT !.ops = Append(@, NewOp("text", "getPage", sc, sel)),
                    !.fetches = @ + 1]
    ELSE [st EXCEPT !.ops = Append(@, NewOp("text", "getText", sc, sel))]

\* A re-render in which the dependencies of the effects in `kinds` changed:
\* React runs the cleanups of those effects, then their bodies, in
\* declaration order (render effect, then text effect).
RunEffects(st, kinds, vis, sc, sel) ==
    LET s0 == MarkStale(st, kinds)
        s1 == IF "render" \in kinds THEN CleanupRender(s0) ELSE s0
        s2 == IF "text" \in kinds THEN CleanupRenderText(s1) ELSE s1
        s3 == IF "render" \in kinds /\ vis THEN renderPage(s2, sc) ELSE s2
        s4 == IF "text" \in kinds /\ vis THEN renderText(s3, sc, sel) ELSE s3
    IN s4

\* ------------------------------------------------------- selection marking
\* if (startPage == props.pageIndex || endIndex == props.pageIndex)
MarkGuard(sel, pgIdx) == sel[1] = pgIdx \/ sel[4] = pgIdx

MarkStart(sel, pgIdx) == IF sel[1] = pgIdx THEN sel[2] ELSE 0

MarkEnd(sel, pgIdx) == IF sel[3] = pgIdx THEN sel[4] ELSE EndSentinel

\* the 0-based child indexes that get classList.add("marked"), for a text
\* layer of n children
MarkedIndexes(sel, pgIdx, n) ==
    IF sel = NoSel \/ ~MarkGuard(sel, pgIdx) THEN {}
    ELSE {i \in 0..(n - 1) : MarkStart(sel, pgIdx) <= i /\ i <= MarkEnd(sel, pgIdx)}

ApplyMarks(children, sel, pgIdx) ==
    [i \in DOMAIN children |->
        children[i] \/ (i - 1) \in MarkedIndexes(sel, pgIdx, Len(children))]

\* ------------------------------------------------------------------ actions
\* the App re-renders the page with a new scale prop (a ctrl+wheel tick); both
\* effects depend on it
ScaleChanged ==
    /\ mounted
    /\ zooms < MaxZoom
    /\ Len(ops) + 2 <= MaxOps
    /\ \E s \in {ScaleUp(scale), ScaleDown(scale)} :
        /\ scale' = s
        /\ Commit(RunEffects(PageState, {"render", "text"}, visible, s, selection))
    /\ zooms' = zooms + 1
    /\ UNCHANGED <<selection, pagePropIndex, glyphCount, mounted, visible, appVars>>

\* setVisible(v) from onGlobalScroll: both effects depend on visible
SetVisible ==
    /\ mounted
    /\ Len(ops) + 2 <= MaxOps
    /\ visible' = ~visible
    /\ Commit(RunEffects(PageState, {"render", "text"}, ~visible, scale, selection))
    /\ UNCHANGED <<scale, selection, zooms, pagePropIndex, glyphCount, mounted, appVars>>

\* the selection set the page is shown with in SpecPage
PageSelections ==
    {NoSel, <<InitVisibleLimit - 1, 1, InitVisibleLimit, 0>>,
     <<InitVisibleLimit, 0, InitVisibleLimit, 1>>}

\* setSelection(...) in the App: only the text effect depends on it
SetSelection ==
    /\ mounted
    /\ Len(ops) + 1 <= MaxOps
    /\ \E s \in PageSelections :
        /\ ~(s = NoSel /\ selection = NoSel)
        /\ selection' = s
        /\ Commit(RunEffects(PageState, {"text"}, visible, scale, s))
    /\ UNCHANGED <<scale, zooms, pagePropIndex, glyphCount, mounted, visible, appVars>>

\* the page component is removed: both cleanups run, the refs become null
Unmount ==
    /\ mounted
    /\ mounted' = FALSE
    /\ Commit(RunEffects(PageState, {"render", "text"}, FALSE, scale, selection))
    /\ UNCHANGED <<scale, selection, zooms, pagePropIndex, glyphCount, visible, appVars>>

\* getPage resolves for operation id.  Every getPage of one page instance asks
\* the document for the same page, and the continuations of one promise run in
\* the order they were registered.
GetPageDone(id) ==
    /\ id \in DOMAIN ops
    /\ ops[id].stage = "getPage"
    /\ \A j \in DOMAIN ops : j < id => ops[j].stage # "getPage"
    /\ LET st0 == [PageState EXCEPT !.tasks.page = TRUE] IN
       IF ops[id].kind = "render"
       THEN IF mounted
            THEN Commit(RenderPageBody(st0, id))
            ELSE Commit(Finish(st0, id, "failed"))
       ELSE Commit([st0 EXCEPT !.ops[id].stage = "getText"])
    /\ UNCHANGED <<scale, selection, zooms, pagePropIndex, glyphCount, mounted, visible, appVars>>

\* getTextContent resolves: the text layer is emptied and renderTextLayer started
GetTextContentDone(id) ==
    /\ id \in DOMAIN ops
    /\ ops[id].stage = "getText"
    /\ IF mounted
       THEN Commit(Write([PageState EXCEPT !.textLayer = <<>>,
                                           !.tasks.renderTextTask = id,
                                           !.ops[id].stage = "rendering"], id, "clear"))
       ELSE Commit(Finish(PageState, id, "failed"))
    /\ UNCHANGED <<scale, selection, zooms, pagePropIndex, glyphCount, mounted, visible, appVars>>

\* renderTask.promise resolves: the raster is on the canvas
RenderTaskDone(id) ==
    /\ id \in DOMAIN ops
    /\ ops[id].kind = "render"
    /\ ops[id].stage = "rendering"
    /\ Commit(Write(Finish([PageState EXCEPT !.canvas.paintedBy = id,
                                             !.tasks.renderTask = 0], id, "done"),
                    id, "paint"))
    /\ UNCHANGED <<scale, selection, zooms, pagePropIndex, glyphCount, mounted, visible, appVars>>

\* renderTextTask.promise resolves: the glyph nodes are in the container; the
\* handle is dropped and the selection of the closure is marked
RenderTextTaskDone(id) ==
    /\ id \in DOMAIN ops
    /\ ops[id].kind = "text"
    /\ ops[id].stage = "rendering"
    /\ LET filled == textLayer \o [i \in 1..glyphCount |-> FALSE]
           st1 == Write(Finish([PageState EXCEPT !.textLayer = filled,
                                                 !.tasks.renderTextTask = 0], id, "done"),
                        id, "populate")
           sel == ops[id].selection
       IN IF sel # NoSel /\ MarkGuard(sel, pagePropIndex)
          THEN Commit(Write([st1 EXCEPT !.textLayer = ApplyMarks(filled, sel, pagePropIndex)],
                            id, "mark"))
          ELSE Commit(st1)
    /\ UNCHANGED <<scale, selection, zooms, pagePropIndex, glyphCount, mounted, visible, appVars>>

\* ------------------------------------------------------------ SpecPage
\* The page right after its mount effects: visible is presumed for index < 4,
\* and a visible page has started renderPage and renderText.
InitPage ==
    /\ AppIdle
    /\ scale = InitialScale
    /\ zooms = 0
    /\ selection \in PageSelections
    /\ pagePropIndex \in {InitVisibleLimit - 1, InitVisibleLimit}
    /\ glyphCount = MaxGlyphs
    /\ mounted = TRUE
    /\ visible = (pagePropIndex < InitVisibleLimit)
    /\ LET st == RunEffects([tasks |-> [page |-> FALSE, renderTask |-> 0, renderTextTask |-> 0],
                             ops |-> <<>>,
                             canvas |-> [scale |-> 0, paintedBy |-> 0],
                             textLayer |-> <<>>, fetches |-> 0, writes |-> {}],
                            {"render", "text"}, visible, scale, selection)
       IN /\ tasks = st.tasks
          /\ ops = st.ops
          /\ canvas = st.canvas
          /\ textLayer = st.textLayer
          /\ fetches = st.fetches
          /\ lastWrite = st.writes

NextPage ==
    \/ ScaleChanged
    \/ SetVisible
    \/ SetSelection
    \/ Unmount
    \/ \E id \in 1..MaxOps : GetPageDone(id)
    \/ \E id \in 1..MaxOps : GetTextContentDone(id)
    \/ \E id \in 1..MaxOps : RenderTaskDone(id)
    \/ \E id \in 1..MaxOps : RenderTextTaskDone(id)

SpecPage == InitPage /\ [][NextPage]_vars

\* ------------------------------------------------------------ SpecMark
\* renderText's last step for every selection, page index and glyph count: the
\* page is shown, its raster is done and its text render is about to resolve.
AllSelections ==
    {<<sp, sg, ep, eg>> : sp \in 0..MaxSelPage, sg \in 0..MaxGlyphs,
                          ep \in 0..MaxSelPage, eg \in 0..MaxGlyphs}

InitMark ==
    /\ AppIdle
    /\ scale = InitialScale
    /\ zooms = 0
    /\ selection \in AllSelections \cup {NoSel}
    /\ pagePropIndex \in 0..(MaxSelPage + 1)
    /\ glyphCount \in 0..MaxGlyphs
    /\ mounted = TRUE
    /\ visible = TRUE
    /\ tasks = [page |-> TRUE, renderTask |-> 0, renderTextTask |-> 2]
    /\ ops = <<Finish([ops |-> <<NewOp("render", "rendering", scale, NoSel)>>], 1, "done").ops[1],
               NewOp("text", "rendering", scale, selection)>>
    /\ canvas = [scale |-> scale, paintedBy |-> 1]
    /\ textLayer = <<>>
    /\ fetches = 1
    /\ lastWrite = {}

NextMark == \E id \in 1..MaxOps : RenderTextTaskDone(id)

SpecMark == InitMark /\ [][NextMark]_vars

\* ------------------------------------------------------------ AppContainer
NewLoad(name, idx) == [name |-> name, pageIndex |-> idx, state |-> "pending", raf |-> "none"]

\* what the run so far amounts to: the initial load of a fragment (name, p,
\* sel), an outline navigation to page p, or anything else
Story(kind, name, p, sel) == [kind |-> kind, name |-> name, p |-> p, sel |-> sel]
Other == Story("other", <<>>, 0, NoSel)

\* a scroll event at offset y: every mounted page's onGlobalScroll runs, then
\* React re-renders and the persist effect runs if its dependencies changed
ScrollEvaluation(y) ==
    \E ev \in {Signals(wasVisible, 0, layout, y)} :
    \E app \in {RunCallbacks(AppState, ev, 0)} :
        /\ scrollY' = y
        /\ scrollPending' = FALSE
        /\ wasVisible' = WasAfterAll(wasVisible, ev)
        /\ events' = [cause |-> "scroll", was |-> wasVisible, ev |-> ev]
        /\ signalled' = Signalled(signalled, ev)
        /\ pageIndex' = app.pageIndex
        /\ scale' = app.scale
        /\ selection' = app.selection
        /\ document' = app.document
        /\ hash' = Persist(app.pageIndex # pageIndex \/ app.selection # selection,
                           documentName, app.pageIndex, app.selection, hash)

\* the user scrolls the window to offset y
ScrollTo(y) ==
    /\ document # 0
    /\ y \in 0..MaxScrollY(layout, Len(wasVisible))
    /\ y # scrollY
    /\ ScrollEvaluation(y)
    /\ story' = Other
    /\ UNCHANGED <<documentName, loads, live, layout, navPending, zooms,
                   pageVars, props, native, outline>>

\* the scroll event of a programmatic scrollIntoView is dispatched
DispatchScroll ==
    /\ scrollPending
    /\ document # 0
    /\ ScrollEvaluation(scrollY)
    /\ UNCHANGED <<documentName, loads, live, layout, navPending, story, zooms,
                   pageVars, props, native, outline>>

\* the document picker's onChange, then the effects of the re-render:
\* loadPdf(documentName) up to its await, and the persist effect
Switch(v) ==
    /\ v \in DocNames
    /\ v # documentName
    /\ Len(loads) < MaxLoads
    /\ pageIndex' = 0
    /\ documentName' = v
    /\ live' = live \ {document}
    /\ document' = 0
    /\ loads' = Append(loads, NewLoad(v, 0))
    /\ wasVisible' = <<>>
    /\ signalled' = <<>>
    /\ outline' = NoOutline
    /\ scrollY' = 0
    /\ scrollPending' = FALSE
    /\ hash' = Persist(pageIndex # 0, v, 0, selection, hash)
    /\ events' = NoEvents
    /\ story' = Other
    /\ UNCHANGED <<scale, selection, zooms, layout, navPending, pageVars, props, native>>

\* pdf.getDocument(path).promise resolves for load l: setDocument(res) and the
\* animation frame request.  Pages that were not mounted mount: each presumes
\* visible for index < 4 and runs onGlobalScroll once.  PdfTree mounts unless
\* a document was displayed already.
LoadDone(l) ==
    /\ l \in DOMAIN loads
    /\ loads[l].state = "pending"
    /\ \E n \in {NumPages(loads[l].name)} :
       \E was0 \in {[i \in 1..n |-> IF i <= Len(wasVisible) THEN wasVisible[i]
                                     ELSE (i - 1) < InitVisibleLimit]} :
       \E y \in {Min(scrollY, MaxScrollY(layout, n))} :
       \E ev \in {Signals(was0, Len(wasVisible), layout, y)} :
       \E app \in {RunCallbacks([AppState EXCEPT !.document = l], ev, 0)} :
          /\ document' = app.document
          /\ pageIndex' = app.pageIndex
          /\ scale' = app.scale
          /\ selection' = app.selection
          /\ wasVisible' = WasAfterAll(was0, ev)
          /\ events' = [cause |-> "mount", was |-> was0, ev |-> ev]
          /\ signalled' = Signalled(signalled, ev)
          /\ scrollY' = y
          /\ scrollPending' = (scrollPending \/ y # scrollY)
          /\ hash' = Persist(app.pageIndex # pageIndex \/ app.selection # selection,
                             documentName, app.pageIndex, app.selection, hash)
    /\ live' = live \cup {l}
    /\ loads' = [loads EXCEPT ![l].state = "loaded", ![l].raf = "pending"]
    /\ outline' = IF document = 0 THEN NewOutline(l) ELSE outline
    /\ story' = IF story.kind = "init" THEN story ELSE Other
    /\ UNCHANGED <<documentName, layout, navPending, zooms, pageVars, props, native>>

\* requestAnimationFrame(() => containerRef.current!.children[pageIndex]
\*                                 .scrollIntoView({})), pageIndex being the
\* value loadPdf closed over; it throws when there is no such container
RafScroll(l) ==
    /\ l \in DOMAIN loads
    /\ loads[l].raf = "pending"
    /\ loads' = [loads EXCEPT ![l].raf = "ran"]
    /\ IF document # 0 /\ loads[l].pageIndex < Len(wasVisible)
       THEN LET y == ScrollTarget(layout, Len(wasVisible), loads[l].pageIndex) IN
            /\ scrollY' = y
            /\ scrollPending' = (scrollPending \/ y # scrollY)
       ELSE UNCHANGED <<scrollY, scrollPending>>
    /\ events' = NoEvents
    /\ story' = IF story.kind = "init" THEN story ELSE Other
    /\ UNCHANGED <<hash, documentName, pageIndex, document, live, layout, wasVisible,
                   navPending, scale, selection, zooms, pageVars, props, native,
                   signalled, outline>>

\* an outline node is clicked: PdfTree's onClick starts resolving item.dest
NavClick(item) ==
    /\ document # 0
    /\ navPending = NoNav
    /\ item \in OutlineDests(NumPages(loads[document].name))
    /\ navPending' = [doc |-> document, dest |-> item]
    /\ events' = NoEvents
    /\ UNCHANGED <<hash, documentName, pageIndex, document, loads, live, layout, scrollY,
                   scrollPending, wasVisible, story, scale, selection, zooms,
                   pageVars, props, native, signalled, outline>>

\* getDestination and getPageIndex have resolved: setPageIndex(newPageIndex),
\* then children[newPageIndex].scrollIntoView({}), which throws when there is
\* no such container
NavResolve ==
    /\ navPending # NoNav
    /\ navPending' = NoNav
    /\ events' = NoEvents
    /\ LET n == NumPages(loads[navPending.doc].name)
           destination == getDestination(n, DestString(navPending.dest))
       IN IF Unresolvable(destination)
          THEN UNCHANGED <<hash, pageIndex, scrollY, scrollPending, story>>
          ELSE LET newPageIndex == destination.refs[1] IN
               /\ pageIndex' = newPageIndex
               /\ hash' = Persist(newPageIndex # pageIndex, documentName, newPageIndex,
                                  selection, hash)
               /\ IF document # 0 /\ newPageIndex < Len(wasVisible)
                  THEN LET y == ScrollTarget(layout, Len(wasVisible), newPageIndex) IN
                       /\ scrollY' = y
                       /\ scrollPending' = (scrollPending \/ y # scrollY)
                       /\ story' = Story("nav", <<>>, newPageIndex, NoSel)
                  ELSE /\ UNCHANGED <<scrollY, scrollPending>>
                       /\ story' = Other
    /\ UNCHANGED <<documentName, document, loads, live, layout, wasVisible, scale,
                   selection, zooms, pageVars, props, native, signalled, outline>>

\* PdfTree.loadTree resumes: setItems(root); a PdfChildTree mounts for every
\* root item
LoadTreeDone ==
    /\ outline.mounted
    /\ ~outline.loaded
    /\ \E items \in {OutlineItems(NumPages(loads[outline.doc].name))} :
        outline' = [outline EXCEPT
                       !.loaded = TRUE,
                       !.items = items,
                       !.nodes = [k \in 1..Len(items) |->
                                     IF items[k].parent = 0 THEN NewNode ELSE NoNode]]
    /\ events' = NoEvents
    /\ UNCHANGED <<hash, documentName, pageIndex, document, loads, live, layout, scrollY,
                   scrollPending, wasVisible, navPending, story, scale, selection, zooms,
                   pageVars, props, native, signalled>>

\* the steps of getPageInfo of the instance of item k change only that instance
GetPageInfoStep(k, node) ==
    /\ outline' = [outline EXCEPT !.nodes[k] = node]
    /\ events' = NoEvents
    /\ UNCHANGED <<hash, documentName, pageIndex, document, loads, live, layout, scrollY,
                   scrollPending, wasVisible, navPending, story, scale, selection, zooms,
                   pageVars, props, native, signalled>>

\* getPageInfo resumes with the destination of String(props.item.dest):
\* if (!destination || destination.length <= 0) return;
GetPageInfoDestination(k) ==
    /\ k \in DOMAIN outline.nodes
    /\ outline.nodes[k].stage = "getDestination"
    /\ LET n == NumPages(loads[outline.doc].name)
           destination == getDestination(n, DestString(outline.items[k].dest))
       IN GetPageInfoStep(k, [outline.nodes[k] EXCEPT
              !.stage = IF Unresolvable(destination) THEN "returned" ELSE "frame"])

\* await new Promise((res) => requestAnimationFrame(res)) is over
GetPageInfoFrame(k) ==
    /\ k \in DOMAIN outline.nodes
    /\ outline.nodes[k].stage = "frame"
    /\ GetPageInfoStep(k, [outline.nodes[k] EXCEPT !.stage = "getPageIndex"])

\* getPageIndex(destination[0]) resolves: setPageNumber(pageIndex + 1)
GetPageInfoIndex(k) ==
    /\ k \in DOMAIN outline.nodes
    /\ outline.nodes[k].stage = "getPageIndex"
    /\ LET n == NumPages(loads[outline.doc].name)
           destination == getDestination(n, DestString(outline.items[k].dest))
           pgIdx == destination.refs[1]
       IN GetPageInfoStep(k, [outline.nodes[k] EXCEPT
              !.stage = "done", !.pageNumber = pgIdx + 1])

\* the click handler of the instance of item k: setShown(!shown) and
\* props.onClick(props.item, props.path), which starts resolving item.dest.
\* When shown becomes true the instances of its items mount; when it becomes
\* false everything rendered inside it unmounts and loses its state.
NodeClick(k) ==
    /\ document # 0
    /\ navPending = NoNav
    /\ k \in DOMAIN outline.nodes
    /\ outline.nodes[k].mounted
    /\ LET shown == ~outline.nodes[k].shown IN
       outline' = [outline EXCEPT !.nodes =
           [j \in DOMAIN outline.nodes |->
               IF j = k THEN [outline.nodes[k] EXCEPT !.shown = shown]
               ELSE IF shown /\ outline.items[j].parent = k THEN NewNode
               ELSE IF ~shown /\ Under(outline.items, j, k) THEN NoNode
               ELSE outline.nodes[j]]]
    /\ navPending' = [doc |-> document, dest |-> outline.items[k].dest]
    /\ events' = NoEvents
    /\ UNCHANGED <<hash, documentName, pageIndex, document, loads, live, layout, scrollY,
                   scrollPending, wasVisible, story, scale, selection, zooms,
                   pageVars, props, native, signalled>>

\* window.getSelection() at mouseup.  present: the selection and both of its
\* nodes exist.  An endpoint is a text node; inLayer: its grandparent element
\* has class "text-layer"; page, glyph: the indexOf results.
Endpoints(n) ==
    {Outside} \cup {[inLayer |-> TRUE, page |-> q, glyph |-> q] : q \in 0..Min(1, n - 1)}

NativeSelections(n) ==
    {NoNative}
        \cup [present : {TRUE}, anchorOffset : 0..MaxOffset, focusOffset : 0..MaxOffset,
              anchor : Endpoints(n), focus : Endpoints(n)]

\* a variant that takes only an empty selection for too short
TooShortEmpty(sel) == sel.focusOffset - sel.anchorOffset < 1

\* if (selection.focusOffset! - selection.anchorOffset! < 2)
TooShort(sel) == sel.focusOffset - sel.anchorOffset < 2

onMouseUp(found) ==
    /\ found \in NativeSelections(Len(wasVisible))
    /\ native' = found
    /\ IF ~found.present
       THEN UNCHANGED <<selection, hash>>
       ELSE IF TooShort(found)
       THEN /\ selection' = NoSel
            /\ hash' = Persist(selection # NoSel, documentName, pageIndex, NoSel, hash)
       ELSE IF ~found.anchor.inLayer \/ ~found.focus.inLayer
       THEN UNCHANGED <<selection, hash>>
       ELSE LET new == <<found.anchor.page, found.anchor.glyph,
                         found.focus.page, found.focus.glyph>> IN
            /\ selection' = new
            /\ hash' = Persist(TRUE, documentName, pageIndex, new, hash)
    /\ events' = [NoEvents EXCEPT !.cause = "mouseup"]
    /\ UNCHANGED <<documentName, pageIndex, document, loads, live, layout, scrollY,
                   scrollPending, wasVisible, navPending, story, scale, zooms,
                   pageVars, props, signalled, outline>>

\* the wheel listener: with ctrlKey, deltaY < 0 zooms in, else out
onScroll(deltaNegative) ==
    /\ zooms < MaxWheel
    /\ zooms' = zooms + 1
    /\ scale' = IF deltaNegative THEN ScaleUp(scale) ELSE ScaleDown(scale)
    /\ events' = NoEvents
    /\ UNCHANGED <<hash, documentName, pageIndex, document, loads, live, layout, scrollY,
                   scrollPending, wasVisible, navPending, story, selection,
                   pageVars, props, native, signalled, outline>>

\* ------------------------------------------------- SpecScroll, SpecDoc
\* the page variables while the App is studied
PageIdle ==
    /\ pagePropIndex = 0
    /\ glyphCount = 0
    /\ mounted = FALSE
    /\ visible = FALSE
    /\ tasks = [page |-> FALSE, renderTask |-> 0, renderTextTask |-> 0]
    /\ ops = <<>>
    /\ canvas = [scale |-> 0, paintedBy |-> 0]
    /\ textLayer = <<>>
    /\ fetches = 0
    /\ lastWrite = {}

\* the well-formed fragments the App is opened with, and no fragment
InitialFragments ==
    {<<>>} \cup {HashOf(name, p, sel) :
                    name \in DocNames, p \in 0..MaxInitPage, sel \in {NoSel, <<0, 0, 1, 1>>}}

\* props.selection as the MarkedSelection state
SelectionOf(x) == IF x.t = "arr" THEN [i \in 1..Len(x.v) |-> x.v[i].v] ELSE NoSel

\* App() decodes location.hash; AppContainer mounts with the decoded props and
\* its mount effects run: loadPdf(documentName) up to its await and the
\* persist effect.
InitApp(fragments, layouts) ==
    /\ PageIdle
    /\ layout \in layouts
    /\ scale = InitialScale
    /\ zooms = 0
    /\ \E fragment \in fragments :
        \E decoded \in {App(fragment)} :
        /\ documentName = decoded.documentName.v
        /\ pageIndex = decoded.pageIndex.v
        /\ selection = SelectionOf(decoded.selection)
        /\ story = Story("init", documentName, pageIndex, selection)
        /\ props = decoded
    /\ document = 0
    /\ live = {}
    /\ loads = <<NewLoad(documentName, pageIndex)>>
    /\ hash = HashOf(documentName, pageIndex, selection)
    /\ scrollY = 0
    /\ scrollPending = FALSE
    /\ wasVisible = <<>>
    /\ events = NoEvents
    /\ navPending = NoNav
    /\ native = NoNative
    /\ signalled = <<>>
    /\ outline = NoOutline

\* SpecScroll: one document, opened from any fragment in any layout; scrolling.
InitScroll == InitApp(InitialFragments, Layouts)

NextScroll ==
    \/ \E y \in 0..(MaxPages * (CanvasH + 2)) : ScrollTo(y)
    \/ DispatchScroll
    \/ \E l \in 1..MaxLoads : LoadDone(l)
    \/ \E l \in 1..MaxLoads : RafScroll(l)

SpecScroll == InitScroll /\ [][NextScroll]_vars

\* SpecNav: one document, opened without a fragment or at its second page;
\* scrolling and outline navigation.
NavFragments == {<<>>, HashOf(OtherDocument, 1, NoSel)}

InitNav == InitApp(NavFragments, Layouts)

NextNav ==
    \/ \E y \in 0..(MaxPages * (CanvasH + 2)) : ScrollTo(y)
    \/ DispatchScroll
    \/ \E l \in 1..MaxLoads : LoadDone(l)
    \/ \E l \in 1..MaxLoads : RafScroll(l)
    \/ \E item \in OutlineDests(MaxPages) \cup OutlineDests(MaxPages - 3) : NavClick(item)
    \/ NavResolve

SpecNav == InitNav /\ [][NextNav]_vars

\* SpecDoc: the App opened without a fragment; document switches, scrolling
\* a page to the top, text selection and zoom.
InitDoc == InitApp({<<>>}, {[viewH |-> CanvasH + 1, border |-> Border]})

\* the selections mouseup finds there: none, or one starting at offset 0 with
\* both ends in the same place
DocSelections ==
    {s \in NativeSelections(MaxPages) : s.anchorOffset = 0 /\ s.anchor = s.focus}

NextDoc ==
    \/ \E k \in 0..(MaxPages - 1) : ScrollTo(ScrollTarget(layout, Len(wasVisible), k))
    \/ DispatchScroll
    \/ \E v \in DocNames : Switch(v)
    \/ \E l \in 1..MaxLoads : LoadDone(l)
    \/ \E l \in 1..MaxLoads : RafScroll(l)
    \/ \E found \in DocSelections : onMouseUp(found)
    \/ \E deltaNegative \in BOOLEAN : onScroll(deltaNegative)

SpecDoc == InitDoc /\ [][NextDoc]_vars

\* ------------------------------------------------------------ SpecOutline
\* SpecOutline: the App opened without a fragment; the document and its
\* outline load, outline nodes resolve their page numbers and are clicked.
\* the positions of the outline's items
Nodes == 1..Len(OutlineItems(MaxPages))

InitOutline == InitApp({<<>>}, {[viewH |-> CanvasH + 1, border |-> Border]})

NextOutline ==
    \/ \E l \in 1..MaxLoads : LoadDone(l)
    \/ \E l \in 1..MaxLoads : RafScroll(l)
    \/ DispatchScroll
    \/ LoadTreeDone
    \/ \E k \in Nodes : GetPageInfoDestination(k)
    \/ \E k \in Nodes : GetPageInfoFrame(k)
    \/ \E k \in Nodes : GetPageInfoIndex(k)
    \/ \E k \in Nodes : NodeClick(k)
    \/ NavResolve

SpecOutline == InitOutline /\ [][NextOutline]_vars

\* ------------------------------------------------------------ SpecSimple
\* src/src/App.tsx, the simpler App: one document, no fragment, a page counter.
\* Its PdfPage classifies as above (Signals); its callbacks count.

\* onExitTop={() => { setPageIndex((pageIndex) => pageIndex + 1); }}
onExitTopSimple(counter) == counter + 1
\* onExitBottom={() => {}}
onExitBottomSimple(counter) == counter
\* onEnterTop={() => { setPageIndex((pageIndex) => pageIndex - 1); }}
onEnterTopSimple(counter) == counter - 1
\* onEnterBottom={() => {}}
onEnterBottomSimple(counter) == counter

CallSimple(signal, counter) ==
    CASE signal = "exitTop" -> onExitTopSimple(counter)
      [] signal = "exitBottom" -> onExitBottomSimple(counter)
      [] signal = "enterTop" -> onEnterTopSimple(counter)
      [] signal = "enterBottom" -> onEnterBottomSimple(counter)
      [] OTHER -> counter

RECURSIVE RunCallbacksSimple(_, _, _)
\* the listeners run in page order; React applies the queued updaters in order
RunCallbacksSimple(counter, ev, i) ==
    IF i >= Len(ev) THEN counter
    ELSE RunCallbacksSimple(CallSimple(ev[i + 1], counter), ev, i + 1)

\* the counter values the model follows
Followed == (0 - MaxDrift)..(MaxPages + MaxDrift)

\* a scroll event at offset y
ScrollEvaluationSimple(y) ==
    \E ev \in {Signals(wasVisible, 0, layout, y)} :
    \E counter \in {RunCallbacksSimple(pageIndex, ev, 0)} :
        /\ counter \in Followed
        /\ scrollY' = y
        /\ scrollPending' = FALSE
        /\ wasVisible' = WasAfterAll(wasVisible, ev)
        /\ events' = [cause |-> "scroll", was |-> wasVisible, ev |-> ev]
        /\ signalled' = Signalled(signalled, ev)
        /\ pageIndex' = counter
        /\ UNCHANGED <<hash, documentName, document, loads, live, layout, navPending,
                       story, scale, selection, zooms, pageVars, props, native, outline>>

\* the user scrolls the window to offset y
ScrollToSimple(y) ==
    /\ document # 0
    /\ y \in 0..MaxScrollY(layout, Len(wasVisible))
    /\ y # scrollY
    /\ ScrollEvaluationSimple(y)

\* the scroll event of a programmatic scrollIntoView is dispatched
DispatchScrollSimple ==
    /\ scrollPending
    /\ document # 0
    /\ ScrollEvaluationSimple(scrollY)

\* loadPdf resumes: setDocument(res).  The pages and PdfTree mount; each page
\* presumes visible for pageNumber < 4 (pageNumber = i + 1) and runs
\* onGlobalScroll once.
LoadDoneSimple ==
    /\ document = 0
    /\ loads[1].state = "pending"
    /\ \E n \in {NumPages(loads[1].name)} :
       \E was0 \in {[i \in 1..n |-> i < InitVisibleLimitSimple]} :
       \E ev \in {Signals(was0, 0, layout, scrollY)} :
          /\ document' = 1
          /\ pageIndex' = RunCallbacksSimple(pageIndex, ev, 0)
          /\ wasVisible' = WasAfterAll(was0, ev)
          /\ events' = [cause |-> "mount", was |-> was0, ev |-> ev]
          /\ signalled' = Signalled(signalled, ev)
    /\ live' = live \cup {1}
    /\ loads' = [loads EXCEPT ![1].state = "loaded"]
    /\ outline' = NewOutline(1)
    /\ UNCHANGED <<hash, documentName, layout, scrollY, scrollPending, navPending, story,
                   scale, selection, zooms, pageVars, props, native>>

\* an outline node is clicked: PdfTree's onClick starts resolving item.dest
NavClickSimple(item) ==
    /\ document # 0
    /\ navPending = NoNav
    /\ item \in OutlineDests(NumPages(loads[document].name))
    /\ navPending' = [doc |-> document, dest |-> item]
    /\ events' = NoEvents
    /\ UNCHANGED <<hash, documentName, pageIndex, document, loads, live, layout, scrollY,
                   scrollPending, wasVisible, story, scale, selection, zooms,
                   pageVars, props, native, signalled, outline>>

\* getDestination and getPageIndex have resolved: setPageIndex(newPageIndex),
\* then children[newPageIndex].scrollIntoView({})
NavResolveSimple ==
    /\ navPending # NoNav
    /\ navPending' = NoNav
    /\ events' = NoEvents
    /\ LET n == NumPages(loads[navPending.doc].name)
           destination == getDestination(n, DestString(navPending.dest))
       IN IF Unresolvable(destination)
          THEN UNCHANGED <<pageIndex, scrollY, scrollPending>>
          ELSE LET newPageIndex == destination.refs[1]
                   y == ScrollTarget(layout, Len(wasVisible), newPageIndex)
               IN /\ pageIndex' = newPageIndex
                  /\ scrollY' = y
                  /\ scrollPending' = (scrollPending \/ y # scrollY)
    /\ UNCHANGED <<hash, documentName, document, loads, live, layout, wasVisible, story,
                   scale, selection, zooms, pageVars, props, native, signalled, outline>>

\* the simpler App at mount: useState(), useState(0), useState(1), and
\* loadPdf() suspended at its await
InitSimple ==
    /\ PageIdle
    /\ layout \in Layouts
    /\ scale = InitialScaleSimple
    /\ zooms = 0
    /\ selection = NoSel
    /\ hash = <<>>
    /\ documentName = DefaultDocument
    /\ pageIndex = 0
    /\ document = 0
    /\ live = {}
    /\ loads = <<NewLoad(DefaultDocument, 0)>>
    /\ scrollY = 0
    /\ scrollPending = FALSE
    /\ wasVisible = <<>>
    /\ events = NoEvents
    /\ navPending = NoNav
    /\ story = Other
    /\ props = AppDefaults
    /\ native = NoNative
    /\ signalled = <<>>
    /\ outline = NoOutline

NextSimple ==
    \/ LoadDoneSimple
    \/ \E y \in 0..(MaxPages * (CanvasH + 2)) : ScrollToSimple(y)
    \/ DispatchScrollSimple
    \/ \E item \in OutlineDests(MaxPages) : NavClickSimple(item)
    \/ NavResolveSimple

SpecSimple == InitSimple /\ [][NextSimple]_vars

\* ------------------------------------------------------------ SpecMouse
\* SpecMouse: the App opened without or with a stored selection; the document
\* loads and the mouse is released over every native selection.
MouseFragments ==
    {<<>>, HashOf(DefaultDocument, 0, <<0, 0, 1, 1>>), HashOf(OtherDocument, 1, <<1, 1, 0, 0>>)}

InitMouse == InitApp(MouseFragments, {[viewH |-> CanvasH + 1, border |-> Border]})

NextMouse ==
    \/ \E l \in 1..MaxLoads : LoadDone(l)
    \/ \E found \in NativeSelections(MaxPages) : onMouseUp(found)

SpecMouse == InitMouse /\ [][NextMouse]_vars

\* ------------------------------------------------------------ SpecFragment
\* document names: the two of the picker, one with a quote and a backslash,
\* one with a Latin-1 letter, one with a letter outside Latin-1
FragmentNames ==
    {DefaultDocument, OtherDocument, <<97, 34, 92>>, <<233, 46, 112>>, <<26085, 46, 112>>}

FragmentSelections == {NoSel, <<0, 0, 1, 1>>, <<MaxInitPage, 10, 0, 2>>}

\* values that are not [version, documentName, pageIndex, selection?]
WrongShapes ==
    {JNum(7), JNull, JStr(OtherDocument), JStr(<<120>>), JArr(<<>>), JArr(<<JNum(0)>>),
     JArr(<<JNull, JNull, JNull>>)}
        \cup {JArr(<<JNum(0), JStr(n)>>) : n \in FragmentNames \ {<<26085, 46, 112>>}}
        \cup {JArr(<<JNum(0), JNum(k), JNum(q)>>) : k, q \in 0..MaxInitPage}
        \cup {JArr(<<JNum(0), JStr(OtherDocument), JStr(<<48 + q>>)>>) : q \in 0..MaxInitPage}
        \cup {JArr(<<JNum(0), JStr(OtherDocument), JNum(q), JStr(<<115>>)>>) :
                 q \in 0..MaxInitPage}
        \cup {JArr(<<JNum(0), JStr(OtherDocument), JNum(q), JArr(<<JNum(1), JNum(2)>>)>>) :
                 q \in 0..MaxInitPage}

\* fragments that are no valid encoding: not base64, base64 of text that is
\* not JSON, base64 of JSON of the wrong shape
MalformedFragments ==
    {<<37, 37, 37, 37>>, <<65>>, btoa(<<91, 48, 44>>), btoa(<<97, 98, 99>>)}
        \cup {btoa(JSONStringify(v)) : v \in WrongShapes}

\* Either the viewer holds a view state whose persist effect has not run yet,
\* or the location carries a malformed fragment and the App is not yet opened.
InitFragment ==
    /\ PageIdle
    /\ scale = InitialScale
    /\ zooms = 0
    /\ document = 0
    /\ loads = <<>>
    /\ live = {}
    /\ layout = [viewH |-> 2, border |-> Border]
    /\ scrollY = 0
    /\ scrollPending = FALSE
    /\ wasVisible = <<>>
    /\ events = NoEvents
    /\ navPending = NoNav
    /\ native = NoNative
    /\ signalled = <<>>
    /\ outline = NoOutline
    /\ props = AppDefaults
    /\ \/ /\ documentName \in FragmentNames
          /\ pageIndex \in 0..MaxInitPage
          /\ selection \in FragmentSelections
          /\ hash = <<>>
          /\ story = Story("view", documentName, pageIndex, selection)
       \/ /\ documentName = DefaultDocument
          /\ pageIndex = 0
          /\ selection = NoSel
          /\ hash \in MalformedFragments
          /\ story = Story("foreign", <<>>, 0, NoSel)

\* the persist effect runs for the view state
HashEffect ==
    /\ story.kind = "view"
    /\ hash' = Persist(TRUE, documentName, pageIndex, selection, hash)
    /\ story' = [story EXCEPT !.kind = "persisted"]
    /\ UNCHANGED <<scale, selection, zooms, documentName, pageIndex, document, loads, live,
                   layout, scrollY, scrollPending, wasVisible, events, navPending, props,
                   native, signalled, pageVars, outline>>

\* the page is opened with the fragment: App() decodes location.hash and
\* renders AppContainer with the props
AppRender ==
    /\ story.kind \in {"persisted", "foreign"}
    /\ props' = App(hash)
    /\ story' = [story EXCEPT !.kind = IF @ = "persisted" THEN "reloaded" ELSE "opened"]
    /\ UNCHANGED <<scale, selection, zooms, hash, documentName, pageIndex, document, loads,
                   live, layout, scrollY, scrollPending, wasVisible, events, navPending,
                   native, signalled, pageVars, outline>>

NextFragment == HashEffect \/ AppRender

SpecFragment == InitFragment /\ [][NextFragment]_vars

\* ------------------------------------------------------------------ claims
\* a newer operation of the same kind was started after operation id
IsSuperseded(id) == \E j \in DOMAIN ops : j > id /\ ops[j].kind = ops[id].kind

\* C1: only the most recently started render / text-render operation of the
\* page writes to its canvas / text container: an operation that has been
\* superseded by a newer one of its kind, or canceled, never resizes or paints
\* the canvas, never clears or populates the text layer and never marks.
C1_OnlyLatestWrites ==
    \A w \in lastWrite : ~IsSuperseded(w.op) /\ ~ops[w.op].cancelCalled

\* C2: whenever a render or text-render effect is re-run or torn down while an
\* earlier operation it started has not completed, at whatever stage, cancel
\* has been invoked on that operation.
C2_StaleIsCanceled ==
    \A id \in DOMAIN ops : ops[id].stale => ops[id].cancelCalled

\* the 0-based indexes of the glyph nodes carrying "marked"
MarkedSet(children) == {i \in 0..(Len(children) - 1) : children[i + 1]}

\* start <= end in (page, glyph) order
Ordered(sel) == sel[1] < sel[3] \/ (sel[1] = sel[3] /\ sel[2] <= sel[4])

\* the glyphs of page i the range covers, n being the page's glyph count
ExpectedMarks(sel, i, n) ==
    IF i < sel[1] \/ i > sel[3] THEN {}
    ELSE {g \in 0..(n - 1) :
            /\ (IF i = sel[1] THEN sel[2] ELSE 0) <= g
            /\ g <= (IF i = sel[3] THEN sel[4] ELSE n - 1)}

\* C9: after the text layer of page i has been populated while a selection
\* (startPage, startGlyph, endPage, endGlyph) is set, the marked glyph nodes
\* are exactly those the range covers on page i: none if the range does not
\* touch the page, else from (startGlyph if i = startPage, else 0) to
\* (endGlyph if i = endPage, else the last glyph).
C9_MarkedExactlyRange ==
    ((\E w \in lastWrite : w.what = "populate") /\ selection # NoSel /\ Ordered(selection))
        => MarkedSet(textLayer) = ExpectedMarks(selection, pagePropIndex, Len(textLayer))

\* C3: at every moment at most one document handle is live (acquired and not
\* yet released), whatever the order of switches and load completions.
C3_AtMostOneLive == Cardinality(live) <= 1

\* the canvas rectangle of page i (counted from 1) at the current offset
Top(i) == RectTop(layout, i - 1, scrollY)
Bottom(i) == RectBottom(layout, i - 1, scrollY)

\* C4: a scroll evaluation classifies a page as not visible exactly when
\* bottom < 0 or top >= H; a page that was visible and is not signals exit-top
\* if bottom < 0 and exit-bottom otherwise; a page that was not visible and is
\* signals enter-top if top < 0 and enter-bottom otherwise; no other signal.
C4_Classification ==
    events.cause = "scroll" =>
        \A i \in 1..Len(wasVisible) :
            LET hidden == Bottom(i) < 0 \/ Top(i) >= layout.viewH
                was == events.was[i]
                expected ==
                    IF was /\ hidden
                    THEN (IF Bottom(i) < 0 THEN "exitTop" ELSE "exitBottom")
                    ELSE IF ~was /\ ~hidden
                    THEN (IF Top(i) < 0 THEN "enterTop" ELSE "enterBottom")
                    ELSE "none"
            IN /\ wasVisible[i] = ~hidden
               /\ events.ev[i] = expected

\* a scroll evaluation where a page with bottom = 0 entered from the top and
\* a page with top = H left at the bottom
C4_Witness ==
    /\ events.cause = "scroll"
    /\ \E i, j \in 1..Len(wasVisible) :
        /\ Bottom(i) = 0 /\ wasVisible[i] /\ events.ev[i] = "enterTop"
        /\ Top(j) = layout.viewH /\ ~wasVisible[j] /\ events.ev[j] = "exitBottom"

\* the pages that signalled in the top direction in the evaluation ev
TopSignalled(ev) == {i \in 1..Len(ev) : ev[i] \in {"exitTop", "enterTop"}}

Last(S) == CHOOSE i \in S : \A j \in S : j <= i

\* C5: in a scroll evaluation only the top-direction callbacks change the
\* page index: enter-top of page i sets it to i, exit-top of page i sets it
\* to i + 1 (the last one invoked decides), exit-bottom and enter-bottom
\* leave it; no callback changes scale, selection or the document.
C5_CallbackFrame ==
    [][events'.cause = "scroll" =>
        LET ev == events'.ev
            tops == TopSignalled(ev)
        IN /\ scale' = scale
           /\ selection' = selection
           /\ document' = document
           /\ documentName' = documentName
           /\ tops = {} => pageIndex' = pageIndex
           /\ tops # {} =>
                pageIndex' = IF ev[Last(tops)] = "exitTop" THEN Last(tops)
                             ELSE Last(tops) - 1]_vars

\* an evaluation with an exit-top, a later enter-bottom, the index set by the
\* exit-top, and a selection in place
C5_Witness ==
    /\ events.cause = "scroll"
    /\ selection # NoSel
    /\ \E i, j \in 1..Len(events.ev) :
        /\ i < j
        /\ events.ev[i] = "exitTop"
        /\ events.ev[j] = "enterBottom"
        /\ TopSignalled(events.ev) = {i}
        /\ pageIndex = i

Visible == {i \in 1..Len(wasVisible) : wasVisible[i]}

\* the current page index is the index of the topmost visible page
Tracks == \A i \in Visible : (\A j \in Visible : i <= j) => pageIndex = i - 1

\* C6: after every scroll event that leaves a page visible the current page
\* index is the index of the topmost visible page, here for the scroll
\* events that start where that is so.
C6_IndexIsTopmostVisible ==
    [][(events'.cause = "scroll" /\ Visible # {} /\ Tracks /\ Visible' # {}) => Tracks']_vars

\* C7: opened with a well-formed fragment [0, name, p, selection?], p below
\* the page count, once the load, the scroll-into-view and its scroll event
\* are processed the viewer shows document name, holds the selection, has
\* page p at the top and its current page index is p.
C7_InitialLoadRestores ==
    (/\ story.kind = "init"
     /\ loads[1].raf = "ran"
     /\ ~scrollPending
     /\ story.p < NumPages(story.name))
        => /\ documentName = story.name
           /\ selection = story.sel
           /\ scrollY = ScrollTarget(layout, NumPages(story.name), story.p)
           /\ pageIndex = story.p

\* C8: after a click on an outline node whose destination resolves to page
\* k, and the scroll event it triggers, the current page index is k.
C8_NavigationLands ==
    (story.kind = "nav" /\ ~scrollPending) => pageIndex = story.p

\* C10: the fragment decodes to the current document name, page index and
\* selection.
C10_FragmentIsCurrent ==
    LET decoded == App(hash)
    IN /\ decoded.documentName.v = documentName
       /\ decoded.pageIndex.v = pageIndex
       /\ SelectionOf(decoded.selection) = selection

\* the selection prop is absent
Absent(x) == x.t \in {"undefined", "null"}

\* C11: opened with a fragment that is no valid encoding, the viewer starts
\* with the defaults: document "amd64volume2.pdf", page index 0, no selection.
C11_MalformedFallsBack ==
    story.kind = "opened" =>
        LET st == InitialState(props)
        IN /\ st.documentName = JStr(DefaultDocument)
           /\ st.pageIndex = JNum(0)
           /\ Absent(st.selection)

\* C12: decoding the fragment the persist effect wrote for a view state
\* yields the document name, page index and selection of that view state.
C12_RoundTrip ==
    story.kind = "reloaded" =>
        LET st == InitialState(props)
        IN /\ st.documentName = JStr(documentName)
           /\ st.pageIndex = JNum(pageIndex)
           /\ IF selection = NoSel THEN Absent(st.selection)
              ELSE st.selection = SelectionValue(selection)

\* the last step was a mouseup that found a selection with both nodes
MouseUpFound == events.cause = "mouseup" /\ native.present

Delta == native.focusOffset - native.anchorOffset

Abs(x) == IF x < 0 THEN -x ELSE x

\* C13: after a mouseup whose selection has both nodes and
\* |focusOffset - anchorOffset| < 2, no selection is stored.
C13_ShortClears == (MouseUpFound /\ Abs(Delta) < 2) => selection = NoSel

\* a one-character selection inside the text layer cleared the selection the
\* viewer was opened with
C13_Witness ==
    /\ MouseUpFound
    /\ Delta = 1
    /\ native.anchor.inLayer /\ native.focus.inLayer
    /\ story.sel # NoSel
    /\ selection = NoSel

\* C14: a mouseup whose selection has an endpoint outside every text layer
\* leaves the stored selection as it was.
C14_OutsideKeepsSelection ==
    [][(events'.cause = "mouseup" /\ native'.present
        /\ (~native'.anchor.inLayer \/ ~native'.focus.inLayer))
            => selection' = selection]_vars

\* the focus is before the anchor in document order
Backward ==
    \/ native.focus.page < native.anchor.page
    \/ native.focus.page = native.anchor.page /\ native.focus.glyph < native.anchor.glyph
    \/ /\ native.focus.page = native.anchor.page
       /\ native.focus.glyph = native.anchor.glyph
       /\ native.focusOffset < native.anchorOffset

\* C20: after a mouseup whose selection lies in the text layer, spans at
\* least 2 characters and was dragged backward, the stored selection is
\* (anchorPage, anchorGlyph, focusPage, focusGlyph).
C20_BackwardIsStored ==
    (/\ MouseUpFound
     /\ native.anchor.inLayer /\ native.focus.inLayer
     /\ Abs(Delta) >= 2
     /\ Backward)
        => selection = <<native.anchor.page, native.anchor.glyph,
                         native.focus.page, native.focus.glyph>>

\* what page i (counted from 1) last signalled before the step
Before(i) == IF i <= Len(signalled) THEN signalled[i] ELSE NoSignal

\* the classification page i holds before the step: the presumption until
\* its first event, then what its last event said
HeldVisible(i) ==
    IF Before(i).last = "none" THEN i - 1 < InitVisibleLimit ELSE Before(i).last = "enter"

\* C15: in every evaluation (each scroll event, and once at mount) a page
\* signals exactly when its classification changes; its exits and enters
\* alternate; its first event is an exit if its index is below 4 and an enter
\* otherwise; a page that is not evaluated signals nothing.
C15_SignalsAlternate ==
    [][events'.cause \in {"scroll", "mount"} =>
        \A i \in 1..Len(events'.ev) :
            LET sig == events'.ev[i]
                exits == sig \in {"exitTop", "exitBottom"}
                enters == sig \in {"enterTop", "enterBottom"}
                visibleNow ==
                    ~(RectBottom(layout, i - 1, scrollY') < 0
                          \/ RectTop(layout, i - 1, scrollY') >= layout.viewH)
                evaluated == events'.cause = "scroll" \/ i > Len(wasVisible)
            IN /\ exits \/ enters \/ sig = "none"
               /\ ~evaluated => sig = "none"
               /\ evaluated =>
                    /\ (sig # "none") <=> (visibleNow # HeldVisible(i))
                    /\ exits => Before(i).last # "exit"
                    /\ enters => Before(i).last # "enter"
                    /\ (exits /\ Before(i).last = "none") => i - 1 < InitVisibleLimit
                    /\ (enters /\ Before(i).last = "none") => i - 1 >= InitVisibleLimit]_vars

\* a page below index 4 has left and come back, and the page of index 4 has
\* come and left
C15_Witness ==
    /\ events.cause = "scroll"
    /\ Len(signalled) > InitVisibleLimit
    /\ \E i \in 1..InitVisibleLimit :
        signalled[i] = [first |-> "exit", last |-> "enter"]
    /\ signalled[InitVisibleLimit + 1] = [first |-> "enter", last |-> "exit"]

\* the index the top-direction callback of page i (counted from 1) writes
Written(ev, i) == IF ev[i] = "exitTop" THEN i ELSE i - 1

\* C16: after a scroll event in which pages signalled in the top direction,
\* the current page index is what the last of them in page order wrote.
C16_LastWriterWins ==
    (events.cause = "scroll" /\ TopSignalled(events.ev) # {})
        => pageIndex = Written(events.ev, Last(TopSignalled(events.ev)))

\* two pages wrote different values in one scroll event
C16_Witness ==
    /\ events.cause = "scroll"
    /\ \E i, j \in TopSignalled(events.ev) :
        /\ i < j
        /\ Written(events.ev, i) # Written(events.ev, j)
        /\ j = Last(TopSignalled(events.ev))
        /\ pageIndex = Written(events.ev, j)

\* every operation of the page has run to its end, was rejected or threw
Settled == \A id \in DOMAIN ops : ops[id].stage \notin Incomplete

\* the operation the latest run of the effect of that kind started
Latest(kind) ==
    CHOOSE id \in DOMAIN ops :
        ops[id].kind = kind /\ \A j \in DOMAIN ops : ops[j].kind = kind => j <= id

\* C17: once a visible page's operations have all ended (nothing further
\* happens unless scale, selection or visibility change again), its canvas is
\* sized for the current scale and holds the raster of the latest render, and
\* its text layer holds one population, that of the latest text render.
C17_SettlesAtCurrentScale ==
    (mounted /\ visible /\ Settled) =>
        /\ canvas.scale = scale
        /\ canvas.paintedBy = Latest("render")
        /\ ops[Latest("text")].stage = "done"
        /\ Len(textLayer) = glyphCount

\* C18: once every load has completed, the displayed document is the one
\* loaded for the current document name.
C18_DisplayedIsSelected ==
    (\A l \in DOMAIN loads : loads[l].state = "loaded") =>
        /\ document # 0
        /\ loads[document].name = documentName

\* C19: a page instance asks the document for its page handle at most once.
C19_FetchedOnce == fetches <= 1

\* C21: whenever a document is displayed, the tracked page index is one of its
\* page indexes, 0 <= pageIndex < numPages.
C21_IndexInRange ==
    document # 0 => pageIndex \in 0..(NumPages(loads[document].name) - 1)

\* the page index an item's destination denotes in a document of n pages:
\* a known name denotes its page, an explicit array the page it refers to
DenotesPage(n, dest) ==
    \/ dest.kind = "name" /\ dest.id \in 0..(n - 1)
    \/ dest.kind = "array"

\* the instance of item k has finished resolving
Resolved(k) == outline.nodes[k].mounted /\ outline.nodes[k].stage \in {"done", "returned"}

\* C22: a displayed outline node that has finished resolving shows the
\* 1-based number of the page its destination (name or array) denotes,
\* whether expanded or not; it shows no label when the destination is absent
\* or denotes no page; and it has attempted the resolution exactly once.
C22_LabelIsPageNumber ==
    \A k \in DOMAIN outline.nodes :
        Resolved(k) =>
            /\ outline.nodes[k].attempts = 1
            /\ outline.nodes[k].pageNumber =
                  IF DenotesPage(NumPages(loads[outline.doc].name), outline.items[k].dest)
                  THEN outline.items[k].dest.id + 1
                  ELSE Blank

\* C23: in the simpler App the displayed page counter is never negative and
\* never above the number of pages of the document.
C23_CounterInRange ==
    document # 0 => pageIndex \in 0..NumPages(loads[document].name)

\* the handle the page stores for operations of that kind (0: null)
Handle(kind) == IF kind = "render" THEN tasks.renderTask ELSE tasks.renderTextTask

\* C24: for the raster render and for the text render alike, the stored
\* handle is non-null exactly while the task started by the latest invocation
\* is running, and then it is that task's handle; it is null once that task
\* has completed or was canceled, and when no invocation has started a task.
C24_HandlesAreCurrent ==
    \A kind \in {"render", "text"} :
        IF \A id \in DOMAIN ops : ops[id].kind # kind
        THEN Handle(kind) = 0
        ELSE /\ Handle(kind) # 0 <=> ops[Latest(kind)].stage = "rendering"
             /\ Handle(kind) # 0 => Handle(kind) = Latest(kind)

====
